---- MODULE Spec2Model ----
(***************************************************************************)
(* Receipt recognition gateway: ingest -> queue -> worker pipeline.        *)
(*                                                                         *)
(* One job is one upload.  The model follows a job from uploadImage        *)
(* through the BullMQ queue ('ocr-jobs', 3 attempts) and the worker        *)
(* handler of worker/processor.ts, which calls                             *)
(* RecognitionProcessor.process of services/processor.ts.                  *)
(*                                                                         *)
(* Units: a confidence is an integer number of thousandths (600 = 0.600);  *)
(* a pixel coordinate is an integer number of half pixels.                 *)
(***************************************************************************)
EXTENDS Integers, Sequences, FiniteSets, TLC

VARIABLES
    recs,        \* recognition_results rows, by recognition id
    images,      \* images rows, by image id
    blobs,       \* keys present in the blob store
    jobs,        \* BullMQ job of each upload: state, data, attemptsMade, failedReason
    pc,          \* position of the worker handler in the job it is running
    exc,         \* exception in flight in the handler (a local of the handler)
    result,      \* value returned by RecognitionProcessor.process (a local)
    work,        \* step-local buffers and engine calls of the running attempt
    events,      \* messages published on 'ocr:events' per recognition id, from
                 \* the upload on, cut where a retry of the job is dequeued
    addedPending,\* QueueEvents 'added' notifications not yet handled by the gateway
    cache,       \* keys of the byte buffers held in the cache
    http,        \* HTTP response answered to each upload request
    requests,    \* the file and metadata of each upload request received
    faults,      \* failures of the bus and of the stores injected so far
    repo,        \* one record behind a repository: its row, its cache entry and
                 \* the findById and update calls in flight on it
    probe        \* the arguments and the value of a call of one of the
                 \* processor's pure functions, taken on its own

vars == <<recs, images, blobs, jobs, pc, exc, result, work, events,
          addedPending, cache, http, requests, faults, repo, probe>>

(* The variables of the gateway and the worker *)
pipeline == <<recs, images, blobs, jobs, pc, exc, result, work, events,
              addedPending, cache, http, requests, faults>>

----------------------------------------------------------------------------
(* Bounds of the model *)

MaxFaults == 1
MaxCodes == 2
MaxUpdates == 2
MaxTokens == 4

(* Program constants *)

QueueAttempts == 3
ConfidenceThresholdLow == 600
ConfidenceThresholdHigh == 700
MaxFileSize == 10 * 1024 * 1024

(* A nullable column or an optional value: <<>> when unset, <<v>> when set *)
None == <<>>
Some(v) == <<v>>
IsSet(o) == o # None

(* The uploads a behaviour follows, named by the ids their rows and job get *)
JobIds == {1}

----------------------------------------------------------------------------
(* Sequence helpers *)

Last(s) == s[Len(s)]

RECURSIVE SeqsUpTo(_, _)
SeqsUpTo(S, n) ==
    IF n = 0 THEN {<<>>}
    ELSE LET shorter == SeqsUpTo(S, n - 1)
         IN shorter \cup {Append(s, x) : s \in {t \in shorter : Len(t) = n - 1}, x \in S}

----------------------------------------------------------------------------
(* Data domains *)

Statuses == {"queued", "processing", "completed", "failed"}
QrFormats == {"fiscal", "url", "unknown"}
MimeTypes == {"image/jpeg", "application/pdf"}
FileSizes == {MaxFileSize, MaxFileSize + 1}
Files == [type : MimeTypes, size : FileSizes]

(* acceptedQrFormats of an upload: absent, or a list of formats *)
AcceptedOptions == {None, Some({"url"})}

(* metadata of an upload: sourceService, sourceReference, acceptedQrFormats *)
Metadata ==
    { [sourceService |-> None, sourceReference |-> None, acceptedQrFormats |-> None],
      [sourceService |-> Some("svc"), sourceReference |-> Some("ref"),
       acceptedQrFormats |-> Some({"url"})] }

(* The message of the last engine's own failure *)
EngineUnavailable == "paddleocr service unavailable"

(* Exception messages *)
ImageNotFound == "image not found"
AllEnginesFailed == "all ocr engines failed"
BusError == "bus publish failed"
StoreError == "store write failed"
BlobError == "blob store failed"
QueueError == "queue add failed"
UnsupportedFormat == "unsupported image format"
FileTooLarge == "file too large"

(* OCR engine responses: the call throws, or returns {text, confidence} *)
Throw == [threw |-> TRUE, text |-> "", confidence |-> 0]
Recognized(text, confidence) == [threw |-> FALSE, text |-> text, confidence |-> confidence]
OcrResponses == {Throw, Recognized("ta", 595), Recognized("tb", 600), Recognized("ta", 724)}

(* QR payloads as token sequences; a token contains the substrings TokenHas lists *)
TokenHas(tok) ==
    CASE tok = "&fn=" -> {"&fn=", "fn="}
      [] tok = "x" -> {}
      [] OTHER -> {tok}

includes(data, s) == \E i \in 1..Len(data) : s \in TokenHas(data[i])
startsWith(data, s) == Len(data) > 0 /\ data[1] = s

FiscalPayload == <<"t=", "s=", "&fn=", "fp=">>
UrlPayload == <<"https://", "x">>
UnknownPayload == <<"x">>

(* Decoded barcodes: text and corner positions (half pixels) *)
Barcodes ==
    { [text |-> FiscalPayload,
       position |-> [topLeft |-> [x |-> 21, y |-> 40], bottomRight |-> [x |-> 220, y |-> 241]]],
      [text |-> UrlPayload,
       position |-> [topLeft |-> [x |-> 10, y |-> 10], bottomRight |-> [x |-> 111, y |-> 110]]],
      [text |-> UnknownPayload,
       position |-> [topLeft |-> [x |-> 0, y |-> 1], bottomRight |-> [x |-> 60, y |-> 61]]] }

(* readBarcodes: throws, or returns up to MaxCodes results *)
ReadResults ==
    {[threw |-> TRUE, codes |-> <<>>]} \cup [threw : {FALSE}, codes : SeqsUpTo(Barcodes, MaxCodes)]
NotRead == [threw |-> FALSE, codes |-> <<>>]

----------------------------------------------------------------------------
(* RecognitionProcessor: pure parts *)

(* A classification that looks at the URL scheme before the fiscal markers *)
classifyUrlFirst(data) ==
    IF startsWith(data, "http://") \/ startsWith(data, "https://")
    THEN "url"
    ELSE IF \/ includes(data, "fn=")
            \/ includes(data, "&fn=")
            \/ (includes(data, "t=") /\ includes(data, "s=") /\ includes(data, "fp="))
    THEN "fiscal"
    ELSE "unknown"

classifyQrFormat(data) ==
    IF \/ includes(data, "fn=")
       \/ includes(data, "&fn=")
       \/ (includes(data, "t=") /\ includes(data, "s=") /\ includes(data, "fp="))
    THEN "fiscal"
    ELSE IF startsWith(data, "http://") \/ startsWith(data, "https://")
    THEN "url"
    ELSE "unknown"

(* Math.round of a value given in half pixels *)
MathRound(h) == (h + 1) \div 2

convertPosition(position) ==
    [x |-> MathRound(position.topLeft.x),
     y |-> MathRound(position.topLeft.y),
     width |-> MathRound(position.bottomRight.x - position.topLeft.x),
     height |-> MathRound(position.bottomRight.y - position.topLeft.y)]

QrOf(code, isPreprocessed) ==
    [data |-> code.text,
     format |-> classifyQrFormat(code.text),
     location |-> convertPosition(code.position),
     foundInPreprocessed |-> isPreprocessed]

(* A selection that takes the first code whatever its format *)
ExtractFirst(read, isPreprocessed) ==
    IF read.threw \/ Len(read.codes) = 0 THEN None
    ELSE Some(QrOf(read.codes[1], isPreprocessed))

(* The result one buffer contributes: none when the read threw or found nothing,
   else the first fiscal code, else the first code. *)
ExtractFrom(read, isPreprocessed) ==
    IF read.threw \/ Len(read.codes) = 0 THEN None
    ELSE LET fiscal == {i \in 1..Len(read.codes) : classifyQrFormat(read.codes[i].text) = "fiscal"}
         IN IF fiscal # {}
            THEN Some(QrOf(read.codes[CHOOSE i \in fiscal : \A k \in fiscal : i <= k], isPreprocessed))
            ELSE Some(QrOf(read.codes[1], isPreprocessed))

(* reads[1], reads[2]: what readBarcodes gives on warped and on preprocessed *)
tryExtractQrFromBothVersions(reads) ==
    LET fromWarped == ExtractFrom(reads[1], FALSE)
    IN IF IsSet(fromWarped) THEN fromWarped ELSE ExtractFrom(reads[2], TRUE)

(* The buffers the loop reads: the second only when the first gave no result *)
BuffersRead(reads) == IF IsSet(ExtractFrom(reads[1], FALSE)) THEN 1 ELSE 2

(* The three attempts of the fallback chain, in order *)
Attempts ==
    << [name |-> "tesseract+preprocessed", engine |-> "tesseract", usedPreprocessed |-> TRUE],
       [name |-> "paddleocr+preprocessed", engine |-> "paddleocr", usedPreprocessed |-> TRUE],
       [name |-> "paddleocr+warped", engine |-> "paddleocr", usedPreprocessed |-> FALSE] >>

(* A result that reports aligned only for the attempt on the warped buffer *)
ProcessorResultOfBuffer(attempt, response) ==
    [raw |-> response.text,
     confidence |-> response.confidence,
     engine |-> attempt.engine,
     aligned |-> ~attempt.usedPreprocessed,
     usedPreprocessed |-> attempt.usedPreprocessed]

ProcessorResultOf(attempt, response) ==
    [raw |-> response.text,
     confidence |-> response.confidence,
     engine |-> attempt.engine,
     aligned |-> TRUE,
     usedPreprocessed |-> attempt.usedPreprocessed]

(* A chain that demands more than the threshold: result.confidence > threshold *)
AcceptsAbove(confidence, threshold) == confidence > threshold

(* if (result.confidence >= this.thresholds.low) *)
Accepts(confidence, threshold) == confidence >= threshold

(* A chain that keeps the first result produced instead of the last *)
KeepFirst(lastResult, res) == IF IsSet(lastResult) THEN lastResult ELSE Some(res)

(* lastResult = {...}: the result kept after an attempt that returned *)
Keep(lastResult, res) == Some(res)

(* ProcessorConfig, the thresholds in thousandths *)
ProcessorConfigOf(high, low) ==
    [confidenceThresholdHigh |-> high, confidenceThresholdLow |-> low, debugMode |-> FALSE]

(* The configuration the worker gives the processor, at the defaults of the
   environment schema *)
Config == ProcessorConfigOf(ConfidenceThresholdHigh, ConfidenceThresholdLow)

(* A chain that compares with the high threshold *)
ThresholdHigh(config) == config.confidenceThresholdHigh

(* this.config.confidenceThresholdLow: the threshold the chain compares with *)
Threshold(config) == config.confidenceThresholdLow

(* What an engine saw of attempt i, and what it answered *)
Call(i, response) ==
    [engine |-> Attempts[i].engine,
     buffer |-> IF Attempts[i].usedPreprocessed THEN "preprocessed" ELSE "warped",
     response |-> response]

(* The loop of recognizeTextWithStrategy from attempt i on: responses[k] is what
   attempt k's engine answers if it is called.  Gives the calls made, the value
   returned (if any) and whether the function threw. *)
RECURSIVE ChainUnder(_, _, _, _, _)
ChainUnder(config, i, responses, lastResult, calls) ==
    IF i > Len(Attempts)
    THEN [calls |-> calls, returned |-> lastResult, threw |-> ~IsSet(lastResult)]
    ELSE LET called == Append(calls, Call(i, responses[i]))
         IN IF responses[i].threw
            THEN ChainUnder(config, i + 1, responses, lastResult, called)
            ELSE LET kept == Keep(lastResult, ProcessorResultOf(Attempts[i], responses[i]))
                 IN IF Accepts(responses[i].confidence, Threshold(config))
                    THEN [calls |-> called, returned |-> kept, threw |-> FALSE]
                    ELSE ChainUnder(config, i + 1, responses, kept, called)

(* The loop under the configuration the worker is started with *)
ChainFrom(i, responses, lastResult, calls) == ChainUnder(Config, i, responses, lastResult, calls)

recognizeTextWithStrategy(responses) == ChainFrom(1, responses, None, <<>>)

(* The engines' answers to a run of the chain; an engine that is not called
   answers nothing (written as Throw) *)
ChainResponsesOf(answers) ==
    {r \in [1..Len(Attempts) -> answers] :
        \A i \in 1..Len(Attempts) : i > Len(recognizeTextWithStrategy(r).calls) => r[i] = Throw}

ChainResponses == ChainResponsesOf(OcrResponses)

(* The answers of an engine that does not keep to confidence in [0,1]: the
   clients hand response.confidence on as it came *)
EngineResponses == OcrResponses \cup {Recognized("tb", 1500), Recognized("ta", 0 - 1000)}

----------------------------------------------------------------------------
(* Persistence: rows, keys and repositories *)

(* numeric(3,2): the value is rounded to hundredths (half away from zero) *)
NumericColumn(v) ==
    IF v >= 0 THEN ((v + 5) \div 10) * 10 ELSE 0 - ((((0 - v) + 5) \div 10) * 10)

ColumnValue(column, value) ==
    IF column = "confidence" /\ IsSet(value) THEN Some(NumericColumn(value[1])) ELSE value

(* db.update(table).set(dto): the columns the dto names are written, the rest kept *)
SetColumns(row, dto) ==
    [c \in DOMAIN row |-> IF c \in DOMAIN dto THEN ColumnValue(c, dto[c]) ELSE row[c]]

(* RecognitionsRepository.create: the row with its column defaults *)
RecognitionRow(dto) ==
    [imageId |-> dto.imageId, status |-> dto.status, resultType |-> None,
     rawText |-> None, confidence |-> None, engine |-> None, aligned |-> FALSE,
     qrData |-> None, qrFormat |-> None, qrLocation |-> None,
     processingTime |-> None, error |-> None, completedAt |-> None]

(* ImagesRepository.create *)
ImageRow(dto) ==
    [originalUrl |-> dto.originalUrl, processedUrl |-> None,
     fileSize |-> dto.fileSize, mimeType |-> dto.mimeType,
     sourceService |-> dto.sourceService, sourceReference |-> dto.sourceReference]

(* nanoid() is fresh at every call: here it is named by the call's place *)
(* A key computed from the uploaded bytes instead of a fresh nanoid *)
ContentKey(j) == <<"original.jpg", 0, 0>>

OriginalKey(j) == <<"original.jpg", j, 0>>
(* A key for the warped image that is the upload's own key *)
KeyOfOriginal(j, attempt) == OriginalKey(j)

AlignedKey(j, attempt) == <<"aligned.jpg", j, attempt>>
BlobUrl(key) == <<"minio://bucket">> \o key
BytesCacheKey(name) == <<"ocr:image:", name>>
IdString(id) == <<"id", id>>

KeyOfUrl(url) == Tail(url)

Now == "now"
Elapsed == "elapsed"

(* Outcomes of a call to the bus or to a store: TRUE when it succeeds *)
BusOutcomes == IF faults < MaxFaults THEN {TRUE, FALSE} ELSE {TRUE}
StoreOutcomes == IF faults < MaxFaults THEN {TRUE, FALSE} ELSE {TRUE}
Injected(ok) == IF ok THEN 0 ELSE 1

Event(name) ==
    [event |-> name, imageId |-> 0, recognitionId |-> 0,
     sourceService |-> None, sourceReference |-> None,
     resultType |-> None, error |-> None, position |-> None, estimatedWait |-> None]

(* The fields every event of a job takes from job.data *)
JobEvent(data, name) ==
    [Event(name) EXCEPT !.imageId = data.imageId, !.recognitionId = data.recognitionId,
                        !.sourceService = data.sourceService,
                        !.sourceReference = data.sourceReference]

(* The answers of POST /api/v1/recognize *)
Accepted(imageId, recognitionId) ==
    [status |-> 202, imageId |-> Some(imageId), recognitionId |-> Some(recognitionId),
     state |-> Some("queued"), error |-> None]
Refused(message) ==
    [status |-> 500, imageId |-> None, recognitionId |-> None,
     state |-> None, error |-> Some(message)]

NoJob == [state |-> "none", imageId |-> 0, recognitionId |-> 0,
          sourceService |-> None, sourceReference |-> None,
          acceptedQrFormats |-> None, attemptsMade |-> 0, failedReason |-> None]

(* A job that leaves acceptedQrFormats behind *)
JobDataWithoutFormats(imageId, recognitionId, metadata) ==
    [NoJob EXCEPT !.state = "waiting", !.imageId = imageId, !.recognitionId = recognitionId,
                  !.sourceService = metadata.sourceService,
                  !.sourceReference = metadata.sourceReference]

(* The job queue.instance.add('recognition', {...}) creates *)
JobData(imageId, recognitionId, metadata) ==
    [NoJob EXCEPT !.state = "waiting", !.imageId = imageId, !.recognitionId = recognitionId,
                  !.sourceService = metadata.sourceService,
                  !.sourceReference = metadata.sourceReference,
                  !.acceptedQrFormats = metadata.acceptedQrFormats]
(* A record behind RecognitionsRepository or ImagesRepository (the two are
   written alike): row is the number of updates the database row has taken,
   entry the row the cache holds under the record's key, if any; every
   findById call c holds the row it read (rec), what it returned (returned) and
   the last update that had returned when it started (after); update is the
   place of the update call in flight and updated the last update that has
   returned. *)
Callers == {1, 2}
NoCall == [at |-> "idle", rec |-> 0, after |-> 0, returned |-> None]
NoCalls == [row |-> 0, entry |-> None, calls |-> [c \in Callers |-> NoCall],
            update |-> "idle", updated |-> 0]

(* No pure function is under study *)
NoProbe == <<>>

NoWork == [loadedFrom |-> "none", align |-> "none", warped |-> "none", preprocessed |-> "none",
           qr |-> None, calls |-> <<>>]

(* Gateway and worker after construction: nothing uploaded, nothing running *)
Booted ==
    /\ recs = [j \in JobIds |-> None]
    /\ images = [j \in JobIds |-> None]
    /\ blobs = {}
    /\ jobs = [j \in JobIds |-> NoJob]
    /\ pc = [j \in JobIds |-> "idle"]
    /\ exc = [j \in JobIds |-> None]
    /\ result = [j \in JobIds |-> None]
    /\ work = [j \in JobIds |-> NoWork]
    /\ events = [j \in JobIds |-> <<>>]
    /\ addedPending = {}
    /\ cache = {}
    /\ http = [j \in JobIds |-> None]
    /\ requests = [j \in JobIds |-> None]

Init ==
    /\ Booted
    /\ faults = 0
    /\ repo = NoCalls
    /\ probe = NoProbe

(* The same system with a bus and stores that never fail *)
InitNominal ==
    /\ Booted
    /\ faults = MaxFaults
    /\ repo = NoCalls
    /\ probe = NoProbe

----------------------------------------------------------------------------
(* Ingest: OcrService.uploadImage behind POST /api/v1/recognize *)

UploadFailurePoints ==
    {"none"} \cup (IF faults < MaxFaults THEN {"blob", "image", "recognition", "enqueue"} ELSE {})

Publish(j, e) == events' = [events EXCEPT ![j] = Append(@, e)]

(* The error uploadImage throws when it fails at a point *)
UploadError(failAt) ==
    CASE failAt = "blob" -> BlobError
      [] failAt = "enqueue" -> QueueError
      [] OTHER -> StoreError

(* A size test that also refuses a file of exactly the limit *)
AtLeastLimit(file) == file.size >= MaxFileSize

(* if (!['image/jpeg', 'image/png', 'image/webp'].includes(file.type)) *)
UnsupportedType(file) == file.type \notin {"image/jpeg", "image/png", "image/webp"}

(* if (file.size > 10 * 1024 * 1024) *)
TooLarge(file) == file.size > MaxFileSize

uploadImage(j, file, metadata) ==
    /\ http[j] = None
    /\ requests' = [requests EXCEPT ![j] = Some([file |-> file, metadata |-> metadata])]
    /\ UNCHANGED <<pc, exc, result, work, events, repo, probe>>
    /\ IF UnsupportedType(file)
       THEN /\ http' = [http EXCEPT ![j] = Some(Refused(UnsupportedFormat))]
            /\ UNCHANGED <<recs, images, blobs, jobs, addedPending, cache, faults>>
       ELSE IF TooLarge(file)
       THEN /\ http' = [http EXCEPT ![j] = Some(Refused(FileTooLarge))]
            /\ UNCHANGED <<recs, images, blobs, jobs, addedPending, cache, faults>>
       ELSE \E failAt \in UploadFailurePoints :
            /\ faults' = faults + Injected(failAt = "none")
            /\ blobs' = IF failAt = "blob" THEN blobs ELSE blobs \cup {OriginalKey(j)}
            /\ cache' = IF failAt = "blob" THEN cache
                        ELSE cache \cup {BytesCacheKey(OriginalKey(j))}
            /\ images' = IF failAt \in {"blob", "image"} THEN images
                         ELSE [images EXCEPT ![j] =
                                  Some(ImageRow([originalUrl |-> BlobUrl(OriginalKey(j)),
                                                 fileSize |-> file.size,
                                                 mimeType |-> file.type,
                                                 sourceService |-> metadata.sourceService,
                                                 sourceReference |-> metadata.sourceReference]))]
            /\ recs' = IF failAt \in {"blob", "image", "recognition"} THEN recs
                       ELSE [recs EXCEPT ![j] =
                                Some(RecognitionRow([imageId |-> j, status |-> "queued"]))]
            /\ IF failAt = "none"
               THEN /\ jobs' = [jobs EXCEPT ![j] = JobData(j, j, metadata)]
                    /\ addedPending' = addedPending \cup {j}
                    /\ http' = [http EXCEPT ![j] = Some(Accepted(j, j))]
               ELSE /\ UNCHANGED <<jobs, addedPending>>
                    /\ http' = [http EXCEPT ![j] = Some(Refused(UploadError(failAt)))]

(* POST /api/v1/recognize: the form fields as the route reads them. The image
   part may be missing; acceptedQrFormats may name a format the route does not
   know *)
FormImages == {None} \cup {Some(file) : file \in Files}
FormMetadata ==
    Metadata \cup {[sourceService |-> None, sourceReference |-> None,
                    acceptedQrFormats |-> Some({"url", "barcode"})]}

ImageRequired == "image is required"
InvalidFormats == "invalid formats"

(* The route's own answer to a form it refuses before calling the service *)
BadRequest(message) ==
    [status |-> 400, imageId |-> None, recognitionId |-> None,
     state |-> None, error |-> Some(message)]

(* formats.filter(f => !validFormats.includes(f)) *)
invalidFormats(metadata) ==
    IF IsSet(metadata.acceptedQrFormats) THEN metadata.acceptedQrFormats[1] \ QrFormats ELSE {}

(* The route handler: 400 for a missing image or an unknown QR format, else
   the service's answer, 202 when it returns and 500 when it throws *)
recognize(j, image, metadata) ==
    IF ~IsSet(image)
    THEN /\ http[j] = None
         /\ http' = [http EXCEPT ![j] = Some(BadRequest(ImageRequired))]
         /\ UNCHANGED <<recs, images, blobs, jobs, pc, exc, result, work, events,
                        addedPending, cache, requests, faults, repo, probe>>
    ELSE IF invalidFormats(metadata) # {}
    THEN /\ http[j] = None
         /\ http' = [http EXCEPT ![j] = Some(BadRequest(InvalidFormats))]
         /\ UNCHANGED <<recs, images, blobs, jobs, pc, exc, result, work, events,
                        addedPending, cache, requests, faults, repo, probe>>
    ELSE uploadImage(j, image[1], metadata)

(* bootstrap/gateway.ts: queue.events.on('added'), publishing ocr.queued *)
WaitingCount == Cardinality({k \in DOMAIN jobs : jobs[k].state = "waiting"})

(* A wait estimated for the place behind the last waiting job *)
EstimatedWaitBehind(position) == (position + 1) * 15

(* estimatedWait: position * 15 *)
EstimatedWait(position) == position * 15

onAdded(j) ==
    /\ j \in addedPending
    /\ addedPending' = addedPending \ {j}
    /\ \E ok \in BusOutcomes :
          /\ faults' = faults + Injected(ok)
          /\ IF ok /\ jobs[j].state # "none"
             THEN Publish(jobs[j].recognitionId,
                          [JobEvent(jobs[j], "ocr.queued") EXCEPT !.position = Some(WaitingCount),
                                                                 !.estimatedWait = Some(EstimatedWait(WaitingCount))])
             ELSE UNCHANGED events
    /\ UNCHANGED <<recs, images, blobs, jobs, pc, exc, result, work, cache, http, requests, repo, probe>>

----------------------------------------------------------------------------
(* Worker: the job handler of createWorker and RecognitionProcessor.process *)

(* A queue that retries a failed job without ever exhausting its attempts *)
HandlerThrowsRetriesForever(j, message) ==
    /\ jobs' = [jobs EXCEPT ![j] =
                   [@ EXCEPT !.attemptsMade = 1,
                             !.failedReason = Some(message),
                             !.state = "waiting"]]
    /\ pc' = [pc EXCEPT ![j] = "idle"]
    /\ exc' = [exc EXCEPT ![j] = None]
    /\ result' = [result EXCEPT ![j] = None]
    /\ work' = [work EXCEPT ![j] = NoWork]

(* The handler throws: BullMQ records the failure and retries while attempts remain *)
HandlerThrows(j, message) ==
    /\ jobs' = [jobs EXCEPT ![j] =
                   [@ EXCEPT !.attemptsMade = @ + 1,
                             !.failedReason = Some(message),
                             !.state = IF jobs[j].attemptsMade + 1 < QueueAttempts
                                       THEN "waiting" ELSE "failed"]]
    /\ pc' = [pc EXCEPT ![j] = "idle"]
    /\ exc' = [exc EXCEPT ![j] = None]
    /\ result' = [result EXCEPT ![j] = None]
    /\ work' = [work EXCEPT ![j] = NoWork]

(* A handler that processes the oldest recognition of the table instead of the
   one its job names *)
ProcessArgumentsShared(job) ==
    LET oldest == CHOOSE k \in DOMAIN recs :
                     recs[k] # None /\ \A m \in DOMAIN recs : recs[m] # None => k <= m
    IN [imageId |-> oldest, recognitionId |-> oldest, acceptedQrFormats |-> None]

(* The arguments the handler passes to process(imageId, recognitionId, acceptedQrFormats?) *)
ProcessArguments(job) ==
    [imageId |-> job.imageId, recognitionId |-> job.recognitionId, acceptedQrFormats |-> None]

Dequeue(j) ==
    /\ jobs[j].state = "waiting"
    /\ jobs' = [jobs EXCEPT ![j].state = "active"]
    /\ pc' = [pc EXCEPT ![j] = "publishProcessing"]
    /\ events' = [events EXCEPT ![jobs[j].recognitionId] = IF jobs[j].attemptsMade = 0 THEN @ ELSE <<>>]
    /\ UNCHANGED <<recs, images, blobs, exc, result, work, addedPending, cache, http, requests, faults, repo, probe>>

PublishProcessing(j) ==
    /\ pc[j] = "publishProcessing"
    /\ \E ok \in BusOutcomes :
          /\ faults' = faults + Injected(ok)
          /\ IF ok
             THEN /\ Publish(jobs[j].recognitionId, JobEvent(jobs[j], "ocr.processing"))
                  /\ pc' = [pc EXCEPT ![j] = "process"]
                  /\ UNCHANGED <<jobs, exc, result, work>>
             ELSE /\ HandlerThrows(j, BusError)
                  /\ UNCHANGED events
    /\ UNCHANGED <<recs, images, blobs, addedPending, cache, http, requests, repo, probe>>

(* process, lines 71-75: the write of status processing *)
ProcessStart(j) ==
    /\ pc[j] = "process"
    /\ LET id == ProcessArguments(jobs[j]).recognitionId IN
       \E ok \in StoreOutcomes :
          /\ faults' = faults + Injected(ok)
          /\ IF ok
             THEN /\ recs' = [recs EXCEPT ![id] = Some(SetColumns(@[1], [status |-> "processing"]))]
                  /\ pc' = [pc EXCEPT ![j] = "load"]
                  /\ UNCHANGED exc
             ELSE /\ exc' = [exc EXCEPT ![j] = Some(StoreError)]
                  /\ pc' = [pc EXCEPT ![j] = "catch"]
                  /\ UNCHANGED recs
    /\ UNCHANGED <<images, blobs, jobs, result, work, events, addedPending, cache, http, requests, repo, probe>>

(* getImageBuffer *)
Load(j) ==
    /\ pc[j] = "load"
    /\ LET imageId == ProcessArguments(jobs[j]).imageId IN
       IF images[imageId] = None
       THEN /\ exc' = [exc EXCEPT ![j] = Some(ImageNotFound)]
            /\ pc' = [pc EXCEPT ![j] = "catch"]
            /\ UNCHANGED <<work, faults>>
       ELSE IF BytesCacheKey(IdString(imageId)) \in cache
       THEN /\ work' = [work EXCEPT ![j].loadedFrom = "cache"]
            /\ pc' = [pc EXCEPT ![j] = "align"]
            /\ UNCHANGED <<exc, faults>>
       ELSE \E ok \in StoreOutcomes :
            /\ faults' = faults + Injected(ok)
            /\ IF ok /\ KeyOfUrl(images[imageId][1].originalUrl) \in blobs
               THEN /\ work' = [work EXCEPT ![j].loadedFrom = "blob"]
                    /\ pc' = [pc EXCEPT ![j] = "align"]
                    /\ UNCHANGED exc
               ELSE /\ exc' = [exc EXCEPT ![j] = Some(BlobError)]
                    /\ pc' = [pc EXCEPT ![j] = "catch"]
                    /\ UNCHANGED work
    /\ UNCHANGED <<recs, images, blobs, jobs, result, events, addedPending, cache, http, requests, repo, probe>>

(* process, lines 92-174: align, store the warped image, or fall back locally.
   The blob put and the Image update are inside the same try as the align call. *)
(* A fallback that hands the locally preprocessed image to both buffers *)
LocalFallbackForBoth(sharpOk) ==
    [warped |-> IF sharpOk THEN "local-preprocessed" ELSE "original",
     preprocessed |-> IF sharpOk THEN "local-preprocessed" ELSE "original"]

(* The catch of the align try: warped is the original image, preprocessed what
   applyLocalPreprocessing returns (the original image when sharp fails) *)
LocalFallback(sharpOk) ==
    [warped |-> "original",
     preprocessed |-> IF sharpOk THEN "local-preprocessed" ELSE "original"]

Align(j) ==
    /\ pc[j] = "align"
    /\ LET imageId == ProcessArguments(jobs[j]).imageId
           warpedKey == AlignedKey(j, jobs[j].attemptsMade)
       IN \E alignOk \in BOOLEAN, putOk \in StoreOutcomes, sharpOk \in BOOLEAN :
          \E updateOk \in (IF putOk THEN StoreOutcomes ELSE {TRUE}) :
             /\ (~alignOk => putOk /\ updateOk)
             /\ (alignOk /\ putOk /\ updateOk => sharpOk)
             /\ faults' = faults + Injected(putOk) + Injected(updateOk)
             /\ faults' <= MaxFaults
             /\ blobs' = IF alignOk /\ putOk THEN blobs \cup {warpedKey} ELSE blobs
             /\ images' = IF alignOk /\ putOk /\ updateOk
                          THEN [images EXCEPT ![imageId] =
                                   Some(SetColumns(@[1], [processedUrl |-> Some(BlobUrl(warpedKey))]))]
                          ELSE images
             /\ work' = [work EXCEPT
                            ![j].align = IF alignOk THEN "returned" ELSE "failed",
                            ![j].warped = IF alignOk /\ putOk /\ updateOk THEN "aligned"
                                          ELSE LocalFallback(sharpOk).warped,
                            ![j].preprocessed = IF alignOk /\ putOk /\ updateOk THEN "aligned-preprocessed"
                                                ELSE LocalFallback(sharpOk).preprocessed]
    /\ pc' = [pc EXCEPT ![j] = "recognize"]
    /\ UNCHANGED <<recs, jobs, exc, result, events, addedPending, cache, http, requests, repo, probe>>

(* The dto of the write that completes a recognition with a QR result *)
QrCompletion(qr) ==
    [status |-> "completed", resultType |-> Some("qr"), qrData |-> Some(qr.data),
     qrFormat |-> Some(qr.format), qrLocation |-> Some(qr.location),
     processingTime |-> Some(Elapsed), completedAt |-> Some(Now)]

(* The dto of the write that completes a recognition with a text result *)
TextCompletion(text) ==
    [status |-> "completed", resultType |-> Some("text"), rawText |-> Some(text.raw),
     confidence |-> Some(text.confidence), engine |-> Some(text.engine),
     aligned |-> text.aligned,
     processingTime |-> Some(Elapsed), completedAt |-> Some(Now)]

(* A catch that records the failure without its time *)
FailureWithoutTime(message) ==
    [status |-> "failed", error |-> Some(message)]

(* The dto of the write in the catch of process *)
Failure(message) ==
    [status |-> "failed", error |-> Some(message), completedAt |-> Some(Now)]

(* A test that takes an absent list for an empty one *)
shouldAcceptListed(acceptedQrFormats, qr) ==
    IsSet(acceptedQrFormats) /\ qr.format \in acceptedQrFormats[1]

shouldAcceptQr(acceptedQrFormats, qr) ==
    ~IsSet(acceptedQrFormats) \/ qr.format \in acceptedQrFormats[1]

(* The terminal write of process: on success process returns value, else it throws *)
Complete(j, id, dto, value) ==
    \E ok \in StoreOutcomes :
       /\ faults' = faults + Injected(ok)
       /\ IF ok
          THEN /\ recs' = [recs EXCEPT ![id] = Some(SetColumns(@[1], dto))]
               /\ result' = [result EXCEPT ![j] = Some(value)]
               /\ pc' = [pc EXCEPT ![j] = "publishCompleted"]
               /\ UNCHANGED exc
          ELSE /\ exc' = [exc EXCEPT ![j] = Some(StoreError)]
               /\ pc' = [pc EXCEPT ![j] = "catch"]
               /\ UNCHANGED <<recs, result>>

(* process, lines 176-250: QR attempt, then the OCR chain; reads is what
   readBarcodes gives on warped and on preprocessed *)
RecognizeOn(j, chains, reads) ==
    LET args == ProcessArguments(jobs[j])
        qrResult == tryExtractQrFromBothVersions(reads)
    IN IF IsSet(qrResult) /\ shouldAcceptQr(args.acceptedQrFormats, qrResult[1])
       THEN /\ Complete(j, args.recognitionId, QrCompletion(qrResult[1]),
                        [resultType |-> "qr", text |-> None, qr |-> qrResult])
            /\ work' = [work EXCEPT ![j].qr = qrResult]
       ELSE \E responses \in chains :
            LET chain == recognizeTextWithStrategy(responses) IN
            /\ work' = [work EXCEPT ![j].qr = qrResult, ![j].calls = chain.calls]
            /\ IF chain.threw
               THEN /\ exc' = [exc EXCEPT ![j] = Some(AllEnginesFailed)]
                    /\ pc' = [pc EXCEPT ![j] = "catch"]
                    /\ UNCHANGED <<recs, result, faults>>
               ELSE Complete(j, args.recognitionId, TextCompletion(chain.returned[1]),
                             [resultType |-> "text", text |-> chain.returned, qr |-> None])

(* The reads of the two buffers: preprocessed is read only when warped gave
   no result *)
BufferReads ==
    {reads \in ReadResults \X ReadResults :
        BuffersRead(<<reads[1], NotRead>>) = 1 => reads[2] = NotRead}

RecognizeWith(j, chains) ==
    /\ \E reads \in BufferReads : RecognizeOn(j, chains, reads)
    /\ UNCHANGED <<images, blobs, jobs, events, addedPending, cache, http, requests, repo, probe>>

(* The same step, keeping which of the two decodings threw *)
RecognizeTraced(j) ==
    /\ pc[j] = "recognize"
    /\ \E reads \in BufferReads :
          /\ RecognizeOn(j, ChainResponses, reads)
          /\ probe' = <<reads[1].threw, reads[2].threw>>
    /\ UNCHANGED <<images, blobs, jobs, events, addedPending, cache, http, requests, repo>>

(* The engines answer within their contract *)
Recognize(j) ==
    /\ pc[j] = "recognize"
    /\ RecognizeWith(j, ChainResponses)

(* The engines answer with any confidence *)
RecognizeUnchecked(j) ==
    /\ pc[j] = "recognize"
    /\ RecognizeWith(j, ChainResponsesOf(EngineResponses))

(* A catch that swallows the exception: the handler never learns of the failure *)
Swallow(j) == pc' = [pc EXCEPT ![j] = "idle"]

(* throw error: the exception reaches the catch of the handler *)
Rethrow(j) == pc' = [pc EXCEPT ![j] = "publishFailed"]

(* process, lines 251-259: write failed, rethrow *)
Catch(j) ==
    /\ pc[j] = "catch"
    /\ LET id == ProcessArguments(jobs[j]).recognitionId IN
       \E ok \in StoreOutcomes :
          /\ faults' = faults + Injected(ok)
          /\ IF ok
             THEN /\ recs' = [recs EXCEPT ![id] = Some(SetColumns(@[1], Failure(exc[j][1])))]
                  /\ UNCHANGED exc
             ELSE /\ exc' = [exc EXCEPT ![j] = Some(StoreError)]
                  /\ UNCHANGED recs
    /\ Rethrow(j)
    /\ UNCHANGED <<images, blobs, jobs, result, work, events, addedPending, cache, http, requests, repo, probe>>

(* handler, lines 38-59: publish ocr.completed, return the result *)
PublishCompleted(j) ==
    /\ pc[j] = "publishCompleted"
    /\ \E ok \in BusOutcomes :
          /\ faults' = faults + Injected(ok)
          /\ IF ok
             THEN /\ Publish(jobs[j].recognitionId,
                             [JobEvent(jobs[j], "ocr.completed") EXCEPT !.resultType = Some(result[j][1].resultType)])
                  /\ jobs' = [jobs EXCEPT ![j].state = "completed"]
                  /\ pc' = [pc EXCEPT ![j] = "idle"]
                  /\ exc' = [exc EXCEPT ![j] = None]
                  /\ result' = [result EXCEPT ![j] = None]
                  /\ work' = [work EXCEPT ![j] = NoWork]
             ELSE /\ exc' = [exc EXCEPT ![j] = Some(BusError)]
                  /\ pc' = [pc EXCEPT ![j] = "publishFailed"]
                  /\ UNCHANGED <<events, jobs, result, work>>
    /\ UNCHANGED <<recs, images, blobs, addedPending, cache, http, requests, repo, probe>>

(* handler, lines 60-77: publish ocr.failed, rethrow *)
PublishFailed(j) ==
    /\ pc[j] = "publishFailed"
    /\ \E ok \in BusOutcomes :
          /\ faults' = faults + Injected(ok)
          /\ IF ok
             THEN /\ Publish(jobs[j].recognitionId,
                             [JobEvent(jobs[j], "ocr.failed") EXCEPT !.error = exc[j]])
                  /\ HandlerThrows(j, exc[j][1])
             ELSE /\ HandlerThrows(j, BusError)
                  /\ UNCHANGED events
    /\ UNCHANGED <<recs, images, blobs, addedPending, cache, http, requests, repo, probe>>

----------------------------------------------------------------------------

Next ==
    \/ \E j \in JobIds, image \in FormImages, metadata \in FormMetadata : recognize(j, image, metadata)
    \/ \E j \in JobIds : onAdded(j)
    \/ \E j \in JobIds : Dequeue(j)
    \/ \E j \in JobIds : PublishProcessing(j)
    \/ \E j \in JobIds : ProcessStart(j)
    \/ \E j \in JobIds : Load(j)
    \/ \E j \in JobIds : Align(j)
    \/ \E j \in JobIds : Recognize(j)
    \/ \E j \in JobIds : Catch(j)
    \/ \E j \in JobIds : PublishCompleted(j)
    \/ \E j \in JobIds : PublishFailed(j)

Spec == Init /\ [][Next]_vars

SpecNominal == InitNominal /\ [][Next]_vars

(* The worker under fair scheduling, with stores and bus that never fail: a
   waiting job is eventually taken by the BullMQ worker, and a handler that can
   take its next step (every await returns or throws) eventually takes it *)
WorkerFairness ==
    /\ WF_vars(\E j \in JobIds : Dequeue(j))
    /\ WF_vars(\E j \in JobIds : PublishProcessing(j))
    /\ WF_vars(\E j \in JobIds : ProcessStart(j))
    /\ WF_vars(\E j \in JobIds : Load(j))
    /\ WF_vars(\E j \in JobIds : Align(j))
    /\ WF_vars(\E j \in JobIds : Recognize(j))
    /\ WF_vars(\E j \in JobIds : Catch(j))
    /\ WF_vars(\E j \in JobIds : PublishCompleted(j))
    /\ WF_vars(\E j \in JobIds : PublishFailed(j))

SpecFair == InitNominal /\ [][Next]_vars /\ WorkerFairness

(* The same system, without store or bus failures, in front of engines that
   may answer with a confidence outside [0,1] *)
NextEngines ==
    \/ \E j \in JobIds, image \in FormImages, metadata \in FormMetadata : recognize(j, image, metadata)
    \/ \E j \in JobIds : onAdded(j)
    \/ \E j \in JobIds : Dequeue(j)
    \/ \E j \in JobIds : PublishProcessing(j)
    \/ \E j \in JobIds : ProcessStart(j)
    \/ \E j \in JobIds : Load(j)
    \/ \E j \in JobIds : Align(j)
    \/ \E j \in JobIds : RecognizeUnchecked(j)
    \/ \E j \in JobIds : Catch(j)
    \/ \E j \in JobIds : PublishCompleted(j)
    \/ \E j \in JobIds : PublishFailed(j)

SpecEngines == InitNominal /\ [][NextEngines]_vars

(* The same system, without store or bus failures, observed with the outcome
   of the two QR decodings of each attempt *)
NextDecoder ==
    \/ \E j \in JobIds, image \in FormImages, metadata \in FormMetadata : recognize(j, image, metadata)
    \/ \E j \in JobIds : onAdded(j)
    \/ \E j \in JobIds : Dequeue(j)
    \/ \E j \in JobIds : PublishProcessing(j)
    \/ \E j \in JobIds : ProcessStart(j)
    \/ \E j \in JobIds : Load(j)
    \/ \E j \in JobIds : Align(j)
    \/ \E j \in JobIds : RecognizeTraced(j)
    \/ \E j \in JobIds : Catch(j)
    \/ \E j \in JobIds : PublishCompleted(j)
    \/ \E j \in JobIds : PublishFailed(j)

SpecDecoder == InitNominal /\ [][NextDecoder]_vars

-----------------------------------------------------------------------------
(* tryExtractQrFromBothVersions on its own: probe holds what readBarcodes
   gives on each buffer if it is called on it, then the value returned and the
   number of buffers the loop read *)

InitQr ==
    /\ Booted
    /\ faults = MaxFaults
    /\ repo = NoCalls
    /\ probe \in [reads : ReadResults \X ReadResults, at : {"call"},
                   qr : {None}, consulted : {0}]

extractQr ==
    /\ probe.at = "call"
    /\ probe' = [probe EXCEPT !.at = "returned",
                              !.qr = tryExtractQrFromBothVersions(probe.reads),
                              !.consulted = BuffersRead(probe.reads)]
    /\ UNCHANGED <<pipeline, repo>>

NextQr == extractQr

SpecQr == InitQr /\ [][NextQr]_vars

-----------------------------------------------------------------------------
(* classifyQrFormat on its own: probe holds a payload of up to MaxTokens
   tokens, then the format returned for it *)

Tokens == {"t=", "s=", "fp=", "fn=", "&fn=", "http://", "https://", "x"}

InitClassify ==
    /\ Booted
    /\ faults = MaxFaults
    /\ repo = NoCalls
    /\ probe \in [data : SeqsUpTo(Tokens, MaxTokens), at : {"call"}, format : {"none"}]

classify ==
    /\ probe.at = "call"
    /\ probe' = [probe EXCEPT !.at = "returned", !.format = classifyQrFormat(probe.data)]
    /\ UNCHANGED <<pipeline, repo>>

NextClassify == classify

SpecClassify == InitClassify /\ [][NextClassify]_vars

(* Two requests to POST /api/v1/recognize, served in either order; the worker
   is left out. UploadIds names the requests. *)
UploadIds == {1, 2}

InitUploads ==
    /\ recs = [j \in UploadIds |-> None]
    /\ images = [j \in UploadIds |-> None]
    /\ blobs = {}
    /\ jobs = [j \in UploadIds |-> NoJob]
    /\ pc = [j \in UploadIds |-> "idle"]
    /\ exc = [j \in UploadIds |-> None]
    /\ result = [j \in UploadIds |-> None]
    /\ work = [j \in UploadIds |-> NoWork]
    /\ events = [j \in UploadIds |-> <<>>]
    /\ addedPending = {}
    /\ cache = {}
    /\ http = [j \in UploadIds |-> None]
    /\ requests = [j \in UploadIds |-> None]
    /\ faults = 0
    /\ repo = NoCalls
    /\ probe = NoProbe

NextUploads ==
    \E j \in UploadIds, image \in FormImages, metadata \in FormMetadata : recognize(j, image, metadata)

SpecUploads == InitUploads /\ [][NextUploads]_vars

(* Two uploads and two executors of the worker running their jobs
   concurrently (concurrency > 1 in createWorker).  The inputs are cut down to
   one file, and to decodings and engine answers that reach each outcome:
   QR found or not, text accepted, every engine failing. *)
OneFile == [type |-> "image/jpeg", size |-> MaxFileSize]
NoMetadata == [sourceService |-> None, sourceReference |-> None, acceptedQrFormats |-> None]
FewReads == {<<NotRead, NotRead>>,
             <<[threw |-> TRUE, codes |-> <<>>],
               [threw |-> FALSE,
                codes |-> <<[text |-> FiscalPayload,
                             position |-> [topLeft |-> [x |-> 21, y |-> 40],
                                           bottomRight |-> [x |-> 220, y |-> 241]]]>>]>>}
FewChains == {[i \in 1..Len(Attempts) |-> Throw],
              [i \in 1..Len(Attempts) |-> IF i = 1 THEN Recognized("tb", 600) ELSE Throw]}

RecognizeFew(j) ==
    /\ pc[j] = "recognize"
    /\ \E reads \in FewReads : RecognizeOn(j, FewChains, reads)
    /\ UNCHANGED <<images, blobs, jobs, events, addedPending, cache, http, requests, repo, probe>>

NextWorkers ==
    \/ \E j \in UploadIds : recognize(j, Some(OneFile), NoMetadata)
    \/ \E j \in UploadIds : onAdded(j)
    \/ \E j \in UploadIds : Dequeue(j)
    \/ \E j \in UploadIds : PublishProcessing(j)
    \/ \E j \in UploadIds : ProcessStart(j)
    \/ \E j \in UploadIds : Load(j)
    \/ \E j \in UploadIds : Align(j)
    \/ \E j \in UploadIds : RecognizeFew(j)
    \/ \E j \in UploadIds : Catch(j)
    \/ \E j \in UploadIds : PublishCompleted(j)
    \/ \E j \in UploadIds : PublishFailed(j)

(* Both executors run against stores and a bus that do not fail *)
InitWorkers ==
    /\ recs = [j \in UploadIds |-> None]
    /\ images = [j \in UploadIds |-> None]
    /\ blobs = {}
    /\ jobs = [j \in UploadIds |-> NoJob]
    /\ pc = [j \in UploadIds |-> "idle"]
    /\ exc = [j \in UploadIds |-> None]
    /\ result = [j \in UploadIds |-> None]
    /\ work = [j \in UploadIds |-> NoWork]
    /\ events = [j \in UploadIds |-> <<>>]
    /\ addedPending = {}
    /\ cache = {}
    /\ http = [j \in UploadIds |-> None]
    /\ requests = [j \in UploadIds |-> None]
    /\ faults = MaxFaults
    /\ repo = NoCalls
    /\ probe = NoProbe

SpecWorkers == InitWorkers /\ [][NextWorkers]_vars

(* recognizeTextWithStrategy as a function of the configuration: the same
   engine answers given to two processors that differ in
   confidenceThresholdHigh only *)
ThresholdsHigh == {600, 700, 1000}
ThresholdsLow == {595, 600, 724}

(* The dto the chain's outcome makes process persist *)
Persisted(chain) ==
    IF chain.threw THEN Failure(AllEnginesFailed) ELSE TextCompletion(chain.returned[1])

InitThresholds ==
    /\ Booted
    /\ faults = MaxFaults
    /\ repo = NoCalls
    /\ probe \in [responses : [1..Len(Attempts) -> OcrResponses],
                   low : ThresholdsLow, highs : ThresholdsHigh \X ThresholdsHigh,
                   at : {"call"}, chains : {<<>>}, dtos : {<<>>}]

runChains ==
    /\ probe.at = "call"
    /\ LET chains == [n \in 1..2 |->
                         ChainUnder(ProcessorConfigOf(probe.highs[n], probe.low),
                                    1, probe.responses, None, <<>>)]
       IN probe' = [probe EXCEPT !.at = "returned", !.chains = chains,
                                 !.dtos = [n \in 1..2 |-> Persisted(chains[n])]]
    /\ UNCHANGED <<pipeline, repo>>

NextThresholds == runChains

SpecThresholds == InitThresholds /\ [][NextThresholds]_vars

-----------------------------------------------------------------------------
(* RecognitionsRepository / ImagesRepository: findById reads through the cache,
   update writes the row and deletes the cache entry.  Every await is a point
   where calls of other requests and of the worker interleave. *)

(* findById, cache.get: a hit is returned as it is, a miss goes to the database *)
findByIdGet(c) ==
    /\ repo.calls[c].at = "idle"
    /\ repo' = [repo EXCEPT
                   !.calls[c] = IF IsSet(repo.entry)
                                THEN [at |-> "idle", rec |-> 0, after |-> repo.updated,
                                      returned |-> repo.entry]
                                ELSE [at |-> "query", rec |-> 0, after |-> repo.updated,
                                      returned |-> None]]
    /\ UNCHANGED <<pipeline, probe>>

(* findById, db.query...findFirst *)
findByIdQuery(c) ==
    /\ repo.calls[c].at = "query"
    /\ repo' = [repo EXCEPT !.calls[c].at = "set", !.calls[c].rec = repo.row]
    /\ UNCHANGED <<pipeline, probe>>

(* findById, cache.set(cacheKey, JSON.stringify(record), 3600), then return *)
findByIdSet(c) ==
    /\ repo.calls[c].at = "set"
    /\ repo' = [repo EXCEPT !.entry = Some(repo.calls[c].rec),
                            !.calls[c].at = "idle",
                            !.calls[c].returned = Some(repo.calls[c].rec)]
    /\ UNCHANGED <<pipeline, probe>>

(* update, db.update(...).set(dto) *)
updateWrite ==
    /\ repo.update = "idle"
    /\ repo.row < MaxUpdates
    /\ repo' = [repo EXCEPT !.row = @ + 1, !.update = "delete"]
    /\ UNCHANGED <<pipeline, probe>>

(* update, cache.delete(key), then return *)
updateDelete ==
    /\ repo.update = "delete"
    /\ repo' = [repo EXCEPT !.entry = None, !.update = "idle", !.updated = repo.row]
    /\ UNCHANGED <<pipeline, probe>>

(* The entry's ttl of 3600 s runs out, or the cache evicts it *)
expire ==
    /\ IsSet(repo.entry)
    /\ repo' = [repo EXCEPT !.entry = None]
    /\ UNCHANGED <<pipeline, probe>>

NextRepository ==
    \/ \E c \in Callers : findByIdGet(c)
    \/ \E c \in Callers : findByIdQuery(c)
    \/ \E c \in Callers : findByIdSet(c)
    \/ updateWrite
    \/ updateDelete
    \/ expire

SpecRepository == Init /\ [][NextRepository]_vars

----------------------------------------------------------------------------
(* Properties *)

Row(j) == recs[j][1]
HasRow(j) == IsSet(recs[j])
Terminal(status) == status \in {"completed", "failed"}

LegalTransitions ==
    {<<"queued", "processing">>, <<"processing", "completed">>, <<"processing", "failed">>}

(* C1: the status values persisted for a recognition follow queued -> processing
   -> (completed | failed); after completed or failed no write changes the
   status, over all deliveries of the job. *)
C1_StatusPath ==
    [][\A j \in JobIds :
          HasRow(j) /\ recs'[j] # recs[j] =>
             \/ Row(j).status = recs'[j][1].status
             \/ <<Row(j).status, recs'[j][1].status>> \in LegalTransitions]_vars

(* The message a step publishes for recognition j, if it publishes one *)
Publishes(j, name) ==
    /\ Len(events'[j]) = Len(events[j]) + 1
    /\ Last(events'[j]).event = name

(* C2: when ocr.completed (ocr.failed) is published for a recognition, the store
   holds status completed (failed) for it. *)
C2_EventMatchesStore ==
    [][\A j \in JobIds :
          /\ Publishes(j, "ocr.completed") => HasRow(j) /\ Row(j).status = "completed"
          /\ Publishes(j, "ocr.failed") => HasRow(j) /\ Row(j).status = "failed"]_vars

WorkerEvents(j) == SelectSeq(events[j], LAMBDA e : e.event # "ocr.queued")

(* C3: a retry of a job whose recognition already holds a terminal status leaves
   the row as it is, and the retry publishes at most one event. *)
C3_RetryIdempotent ==
    [][\A j \in JobIds :
          jobs[j].state = "active" /\ jobs[j].attemptsMade >= 1 =>
             /\ (Terminal(Row(j).status) => recs'[j] = recs[j])
             /\ Len(WorkerEvents(j)') <= 1]_vars

(* C4: a recognition uploaded with an acceptedQrFormats list is never completed
   with a QR result whose format is not in the list. *)
C4_QrFormatAccepted ==
    \A j \in JobIds :
       HasRow(j) /\ Row(j).status = "completed" /\ Row(j).resultType = Some("qr")
                 /\ IsSet(jobs[j].acceptedQrFormats)
          => Row(j).qrFormat[1] \in jobs[j].acceptedQrFormats[1]

(* The calls the OCR chain made in the running attempt of job j *)
Calls(j) == work[j].calls
Returned(call) == ~call.response.threw
MeetsThreshold(call) == Returned(call) /\ call.response.confidence >= ConfidenceThresholdLow

ChainOrder ==
    << [engine |-> "tesseract", buffer |-> "preprocessed"],
       [engine |-> "paddleocr", buffer |-> "preprocessed"],
       [engine |-> "paddleocr", buffer |-> "warped"] >>

(* The row holds the text result of this call, the confidence as the
   numeric(3,2) column keeps it *)
RowHoldsTextOf(j, call) ==
    /\ Row(j).status = "completed"
    /\ Row(j).resultType = Some("text")
    /\ Row(j).rawText = Some(call.response.text)
    /\ Row(j).engine = Some(call.engine)
    /\ Row(j).confidence = Some(((call.response.confidence + 5) \div 10) * 10)

TerminalWriteFailed(j) == exc[j] = Some(StoreError)

(* C5: the chain calls Tesseract on preprocessed, PaddleOCR on preprocessed,
   PaddleOCR on warped, in this order, going on after an attempt that threw or
   stayed below T_low; the first attempt with confidence >= T_low is the last
   one called, and its text, confidence and engine are what the row holds,
   completed with resultType text. *)
C5_FirstAcceptedAttempt ==
    \A j \in JobIds :
       LET n == Len(Calls(j)) IN
       n > 0 =>
          /\ n <= 3
          /\ \A i \in 1..n : /\ Calls(j)[i].engine = ChainOrder[i].engine
                             /\ Calls(j)[i].buffer = ChainOrder[i].buffer
          /\ \A i \in 1..(n - 1) : ~MeetsThreshold(Calls(j)[i])
          /\ (n < 3 => MeetsThreshold(Calls(j)[n]))
          /\ (MeetsThreshold(Calls(j)[n]) =>
                \/ RowHoldsTextOf(j, Calls(j)[n])
                \/ TerminalWriteFailed(j))

(* C5 witness: the third attempt is the first to reach T_low, after a throw and
   a low result, and the row holds its result *)
C5_Witness ==
    \E j \in JobIds :
       /\ Len(Calls(j)) = 3
       /\ Calls(j)[1].response.threw
       /\ Returned(Calls(j)[2]) /\ ~MeetsThreshold(Calls(j)[2])
       /\ MeetsThreshold(Calls(j)[3])
       /\ Calls(j)[3].response.text # Calls(j)[2].response.text
       /\ RowHoldsTextOf(j, Calls(j)[3])
       /\ pc[j] = "publishCompleted"

NoneMeetsThreshold(j) ==
    Len(Calls(j)) = 3 /\ \A i \in 1..3 : ~MeetsThreshold(Calls(j)[i])

(* C6: when no attempt reaches T_low, the row is completed with the result of
   the last attempt that returned one; when all three threw, the attempt
   fails with 'all ocr engines failed'. *)
C6_LastProducedOrFail ==
    \A j \in JobIds :
       NoneMeetsThreshold(j) =>
          LET returned == {i \in 1..3 : Returned(Calls(j)[i])} IN
          IF returned # {}
          THEN \/ RowHoldsTextOf(j, Calls(j)[CHOOSE i \in returned : \A k \in returned : k <= i])
               \/ TerminalWriteFailed(j)
          ELSE /\ pc[j] \in {"catch", "publishFailed"}
               /\ \/ exc[j] = Some("all ocr engines failed")
                  \/ TerminalWriteFailed(j)
               /\ (pc[j] = "publishFailed" /\ exc[j] = Some("all ocr engines failed") =>
                      Row(j).status = "failed" /\ Row(j).error = Some("all ocr engines failed"))

(* C6 witness: two low results then a throw; the row holds the second result *)
C6_Witness ==
    \E j \in JobIds :
       /\ NoneMeetsThreshold(j)
       /\ Returned(Calls(j)[1]) /\ Returned(Calls(j)[2]) /\ ~Returned(Calls(j)[3])
       /\ Calls(j)[1].engine # Calls(j)[2].engine
       /\ RowHoldsTextOf(j, Calls(j)[2])

(* The handler of job j has thrown and BullMQ has recorded the failure *)
AttemptThrew(j) ==
    jobs[j].state \in {"waiting", "failed"} /\ jobs[j].attemptsMade >= 1

(* C7: an exception thrown inside process is caught there: the catch writes
   the row failed, with the exception's message as error and completedAt set,
   before anything is published, and rethrows the same exception; the handler
   then publishes ocr.failed with that message and throws the same exception
   to the queue, which counts the attempt.  A step whose own write or publish
   fails is the one exception: it raises the store's or the bus's error. *)
C7_FailureHandling ==
    [][\A j \in JobIds :
          /\ pc[j] = "catch" /\ pc'[j] # "catch" =>
                /\ pc'[j] = "publishFailed"
                /\ events' = events
                /\ \/ /\ recs'[j][1].status = "failed"
                      /\ recs'[j][1].error = exc[j]
                      /\ IsSet(recs'[j][1].completedAt)
                      /\ exc'[j] = exc[j]
                   \/ /\ faults' = faults + 1
                      /\ exc'[j] = Some(StoreError)
          /\ pc[j] = "publishFailed" /\ pc'[j] # "publishFailed" =>
                /\ exc[j] \notin {Some(BusError), Some(StoreError)} =>
                      Row(j).status = "failed" /\ Row(j).error = exc[j]
                /\ \/ /\ Publishes(j, "ocr.failed")
                      /\ Last(events'[j]).error = exc[j]
                      /\ jobs'[j].failedReason = exc[j]
                   \/ /\ faults' = faults + 1
                      /\ events' = events
                      /\ jobs'[j].failedReason = Some(BusError)
                /\ jobs'[j].attemptsMade = jobs[j].attemptsMade + 1
                /\ jobs'[j].state \in {"waiting", "failed"}
                /\ recs' = recs]_vars

(* C7 witness: an attempt has thrown 'all ocr engines failed' and will be retried *)
C7_Witness ==
    \E j \in JobIds :
       /\ AttemptThrew(j)
       /\ jobs[j].state = "waiting"
       /\ jobs[j].failedReason = Some("all ocr engines failed")
       /\ Last(WorkerEvents(j)).error = Some("all ocr engines failed")

TextFieldsSet(j) == IsSet(Row(j).rawText) /\ IsSet(Row(j).confidence) /\ IsSet(Row(j).engine)
TextFieldsUnset(j) == ~IsSet(Row(j).rawText) /\ ~IsSet(Row(j).confidence) /\ ~IsSet(Row(j).engine)
QrFieldsSet(j) == IsSet(Row(j).qrData) /\ IsSet(Row(j).qrFormat) /\ IsSet(Row(j).qrLocation)
QrFieldsUnset(j) == ~IsSet(Row(j).qrData) /\ ~IsSet(Row(j).qrFormat) /\ ~IsSet(Row(j).qrLocation)

(* C8: a completed recognition has exactly one of the text fields and the QR
   fields populated, the one resultType names. *)
C8_OneResultGroup ==
    \A j \in JobIds :
       HasRow(j) /\ Row(j).status = "completed" =>
          \/ Row(j).resultType = Some("text") /\ TextFieldsSet(j) /\ QrFieldsUnset(j)
          \/ Row(j).resultType = Some("qr") /\ QrFieldsSet(j) /\ TextFieldsUnset(j)

(* C9: a failed recognition has an error and completedAt set and no result
   field populated. *)
C9_FailedHasNoResult ==
    \A j \in JobIds :
       HasRow(j) /\ Row(j).status = "failed" =>
          /\ IsSet(Row(j).error)
          /\ IsSet(Row(j).completedAt)
          /\ ~IsSet(Row(j).resultType)
          /\ TextFieldsUnset(j)
          /\ QrFieldsUnset(j)

(* C10: the error of a recognition is populated only if its status is failed. *)
C10_ErrorOnlyWhenFailed ==
    \A j \in JobIds :
       HasRow(j) /\ IsSet(Row(j).error) => Row(j).status = "failed"

(* C11: completedAt of a recognition is set exactly when its status is
   completed or failed, and resultType is set only when the status is
   completed; a recognition in status processing has neither. *)
C11_CompletedAtIffTerminal ==
    \A j \in JobIds :
       HasRow(j) =>
          /\ IsSet(Row(j).completedAt) <=> Terminal(Row(j).status)
          /\ IsSet(Row(j).resultType) => Row(j).status = "completed"

(* A step of the handler of job j in which a call of the bus or of a store failed *)
HandlerStepFailed(j) == pc'[j] # pc[j] /\ faults' = faults + 1

(* C12: a failure of EventBus.publish never blocks or reverses a transition:
   when the publish of ocr.processing fails the job is still processed, and
   when the publish of ocr.completed fails the recognition stays completed,
   the handler returns, and the job is neither failed nor retried. *)
C12_PublishFailureHarmless ==
    [][\A j \in JobIds :
          /\ pc[j] = "publishProcessing" /\ HandlerStepFailed(j) => pc'[j] = "process"
          /\ pc[j] = "publishCompleted" /\ HandlerStepFailed(j) =>
                /\ pc'[j] = "idle"
                /\ jobs'[j].state = "completed"
                /\ recs'[j][1].status = "completed"]_vars

(* C13: in every attempt the write of status processing precedes the publish
   of ocr.processing: ocr.processing is never published for a recognition
   whose persisted status is still queued. *)
C13_ProcessingWrittenBeforePublished ==
    [][\A j \in JobIds :
          Publishes(j, "ocr.processing") => HasRow(j) /\ Row(j).status # "queued"]_vars

(* The step persists a terminal status for recognition j *)
WritesTerminal(j, status) ==
    /\ IsSet(recs'[j])
    /\ recs'[j] # recs[j]
    /\ recs'[j][1].status = status

(* C14: every persisted write of completed or failed is followed, before the
   attempt ends, by an attempt to publish the matching event: the write hands
   control to the publish, and the handler leaves that point only by calling
   the bus (the event is published, or the call fails). *)
C14_TerminalWriteThenPublish ==
    [][\A j \in JobIds :
          /\ WritesTerminal(j, "completed") => pc'[j] = "publishCompleted"
          /\ WritesTerminal(j, "failed") => pc'[j] = "publishFailed"
          /\ pc[j] = "publishCompleted" /\ pc'[j] # pc[j] =>
                \/ Publishes(j, "ocr.completed")
                \/ faults' = faults + 1 /\ events' = events
          /\ pc[j] = "publishFailed" /\ pc'[j] # pc[j] =>
                \/ Publishes(j, "ocr.failed")
                \/ faults' = faults + 1 /\ events' = events]_vars

(* C14 witness: a retry of the job has written completed and ocr.completed
   has been published for it *)
C14_Witness ==
    \E j \in JobIds :
       /\ jobs[j].state = "completed"
       /\ jobs[j].attemptsMade >= 1
       /\ Row(j).status = "completed"
       /\ Len(WorkerEvents(j)) > 0
       /\ Last(WorkerEvents(j)).event = "ocr.completed"

(* C15: a job runs at most 3 times: an attempt that throws is retried until 3
   attempts have run; after the third failed attempt no further attempt runs
   and the persisted status remains failed (a failed row needs its write: the
   case where the store refused that write is left aside). *)
C15_AtMostThreeAttempts ==
    [][\A j \in JobIds :
          /\ jobs'[j].attemptsMade <= QueueAttempts
          /\ jobs'[j].attemptsMade > jobs[j].attemptsMade =>
                jobs'[j].state = (IF jobs'[j].attemptsMade < QueueAttempts
                                  THEN "waiting" ELSE "failed")
          /\ jobs[j].state = "failed" => jobs'[j] = jobs[j] /\ pc'[j] = "idle"
          /\ jobs'[j].state = "failed" /\ jobs'[j].failedReason # Some(StoreError) =>
                recs'[j][1].status = "failed"]_vars

(* The upload request of j has been received, with this file and metadata *)
Requested(j) == IsSet(requests[j])
RequestOf(j) == requests[j][1]

AllowedTypes == {"image/jpeg", "image/png", "image/webp"}

(* Nothing of upload j has been written anywhere *)
NothingWritten(j) ==
    /\ OriginalKey(j) \notin blobs
    /\ BytesCacheKey(OriginalKey(j)) \notin cache
    /\ ~IsSet(images[j])
    /\ ~IsSet(recs[j])
    /\ jobs[j].state = "none"
    /\ j \notin addedPending
    /\ events[j] = <<>>

(* C16: uploadImage rejects a file whose MIME type is not image/jpeg,
   image/png or image/webp or whose size exceeds 10 MiB, and then nothing has
   been written; a file of an allowed type of exactly 10 MiB is not rejected
   by the validation. *)
C16_InvalidFileRejected ==
    \A j \in JobIds :
       Requested(j) =>
          LET file == RequestOf(j).file IN
          /\ file.type \notin AllowedTypes \/ file.size > 10 * 1024 * 1024 =>
                /\ http[j][1].status # 202
                /\ http[j][1].error \in {Some(UnsupportedFormat), Some(FileTooLarge)}
                /\ NothingWritten(j)
          /\ file.type \in AllowedTypes /\ file.size <= 10 * 1024 * 1024 =>
                http[j][1].error \notin {Some(UnsupportedFormat), Some(FileTooLarge)}

(* C16 witness: a JPEG one byte over 10 MiB has been rejected *)
C16_Witness ==
    \E j \in JobIds :
       /\ Requested(j)
       /\ RequestOf(j).file.type = "image/jpeg"
       /\ RequestOf(j).file.size = 10 * 1024 * 1024 + 1
       /\ http[j][1].error = Some(FileTooLarge)
       /\ NothingWritten(j)

(* The step answers upload j with 202 *)
UploadSucceeds(j) == http[j] = None /\ http'[j] # None /\ http'[j][1].status = 202

(* C17: a successful uploadImage has created one Image, one Recognition with
   status queued referencing it, and one job carrying the ids and the
   sourceService, sourceReference and acceptedQrFormats of the upload, and it
   returns the ids with status queued; a job that exists always refers to an
   existing Image and Recognition. *)
C17_UploadCreatesRecordsAndJob ==
    [][\A j \in JobIds :
          /\ UploadSucceeds(j) =>
                LET request == requests'[j][1]
                    answer == http'[j][1]
                    job == jobs'[j]
                IN /\ ~IsSet(images[j]) /\ IsSet(images'[j])
                   /\ images'[j][1].fileSize = request.file.size
                   /\ images'[j][1].mimeType = request.file.type
                   /\ ~IsSet(recs[j]) /\ IsSet(recs'[j])
                   /\ recs'[j][1].status = "queued"
                   /\ recs'[j][1].imageId = j
                   /\ jobs[j].state = "none" /\ job.state = "waiting"
                   /\ job.imageId = j /\ job.recognitionId = j
                   /\ job.sourceService = request.metadata.sourceService
                   /\ job.sourceReference = request.metadata.sourceReference
                   /\ job.acceptedQrFormats = request.metadata.acceptedQrFormats
                   /\ job.attemptsMade = 0
                   /\ answer.imageId = Some(j) /\ answer.recognitionId = Some(j)
                   /\ answer.state = Some("queued")
          /\ jobs'[j].state # "none" =>
                /\ IsSet(images'[jobs'[j].imageId])
                /\ IsSet(recs'[jobs'[j].recognitionId])
                /\ recs'[jobs'[j].recognitionId][1].imageId = jobs'[j].imageId]_vars

(* C17 witness: an upload with metadata has been answered 202 and its job waits *)
C17_Witness ==
    \E j \in JobIds :
       /\ IsSet(http[j]) /\ http[j][1].status = 202
       /\ jobs[j].state = "waiting" /\ jobs[j].attemptsMade = 0
       /\ jobs[j].acceptedQrFormats = Some({"url"})
       /\ jobs[j].sourceService = Some("svc")
       /\ Row(j).status = "queued"

(* Both records of upload j were inserted and its enqueue failed *)
EnqueueFailed(j) == Requested(j) /\ IsSet(images[j]) /\ IsSet(recs[j]) /\ jobs[j].state = "none"

(* C18: when both inserts succeed and the enqueue fails, the recognition stays
   queued for ever and the caller is still told {imageId, recognitionId,
   status: queued}. *)
C18_EnqueueFailureToldQueued ==
    \A j \in JobIds :
       EnqueueFailed(j) =>
          /\ Row(j).status = "queued"
          /\ http[j][1].imageId = Some(j)
          /\ http[j][1].recognitionId = Some(j)
          /\ http[j][1].state = Some("queued")

(* The blob of upload j was written and the upload then failed *)
FailedAfterBlob(j) ==
    Requested(j) /\ OriginalKey(j) \in blobs /\ http[j][1].status # 202

(* C19: when the blob write succeeds and a metadata insert (of the Image or of
   the Recognition) fails, no Image and no Recognition of the upload exists
   afterwards, no job is enqueued and no event is published. *)
C19_NoRecordAfterInsertFailure ==
    \A j \in JobIds :
       FailedAfterBlob(j) /\ http[j][1].error = Some(StoreError) =>
          /\ ~IsSet(images[j])
          /\ ~IsSet(recs[j])
          /\ jobs[j].state = "none"
          /\ j \notin addedPending
          /\ events[j] = <<>>

(* C20: for every job enqueued by uploadImage one 'added' notification is
   raised and handled once, and handling it publishes ocr.queued with the
   job's imageId and recognitionId, the waiting count read then as position
   and position x 15 as estimatedWait; ocr.queued is published at no other
   step.  The one exception is a publish that fails: it is logged and no
   event is published. *)
C20_QueuedPublishedOnce ==
    [][\A j \in JobIds :
          /\ UploadSucceeds(j) => j \notin addedPending /\ j \in addedPending'
          /\ j \notin addedPending /\ j \in addedPending' => UploadSucceeds(j)
          /\ j \in addedPending /\ j \notin addedPending' =>
                \/ Publishes(j, "ocr.queued")
                \/ faults' = faults + 1 /\ events' = events
          /\ Publishes(j, "ocr.queued") =>
                LET e == Last(events'[j])
                    waiting == Cardinality({k \in JobIds : jobs[k].state = "waiting"})
                IN /\ j \in addedPending /\ j \notin addedPending'
                   /\ e.imageId = jobs[j].imageId
                   /\ e.recognitionId = jobs[j].recognitionId
                   /\ e.sourceService = jobs[j].sourceService
                   /\ e.sourceReference = jobs[j].sourceReference
                   /\ e.position = Some(waiting)
                   /\ e.estimatedWait = Some(waiting * 15)]_vars

(* C20 witness: ocr.queued has been published for a job that was still
   waiting, at position 1 with an estimated wait of 15 *)
C20_Witness ==
    \E j \in JobIds :
       /\ Len(events[j]) = 1
       /\ events[j][1].event = "ocr.queued"
       /\ events[j][1].recognitionId = jobs[j].recognitionId
       /\ events[j][1].position = Some(1)
       /\ events[j][1].estimatedWait = Some(15)
       /\ j \notin addedPending

(* The step in which the handler of job j leaves the recognition point of process *)
RecognizeStep(j) == pc[j] = "recognize" /\ pc'[j] # pc[j]

(* C21: when the QR attempt finds a code and the acceptedQrFormats passed to
   process is absent or contains its format, the attempt completes the
   recognition with resultType qr and the data, format and location of that
   code, calls no OCR engine and leaves rawText, confidence, engine and
   aligned as they were (the one exception is a store that refuses the write). *)
C21_AcceptedQrCompletes ==
    [][\A j \in JobIds :
          LET passed == ProcessArguments(jobs[j]).acceptedQrFormats
              found == work'[j].qr
          IN RecognizeStep(j) /\ IsSet(found)
                /\ (~IsSet(passed) \/ found[1].format \in passed[1]) =>
                /\ work'[j].calls = <<>>
                /\ recs'[j][1].rawText = Row(j).rawText
                /\ recs'[j][1].confidence = Row(j).confidence
                /\ recs'[j][1].engine = Row(j).engine
                /\ recs'[j][1].aligned = Row(j).aligned
                /\ \/ /\ recs'[j][1].status = "completed"
                      /\ recs'[j][1].resultType = Some("qr")
                      /\ recs'[j][1].qrData = Some(found[1].data)
                      /\ recs'[j][1].qrFormat = Some(found[1].format)
                      /\ recs'[j][1].qrLocation = Some(found[1].location)
                      /\ pc'[j] = "publishCompleted"
                   \/ /\ faults' = faults + 1
                      /\ exc'[j] = Some(StoreError)
                      /\ recs' = recs]_vars

(* C21 witness: a fiscal code found in the preprocessed buffer has completed
   the recognition of a job uploaded without a format list *)
C21_Witness ==
    \E j \in JobIds :
       /\ pc[j] = "publishCompleted"
       /\ ~IsSet(jobs[j].acceptedQrFormats)
       /\ IsSet(work[j].qr)
       /\ work[j].qr[1].format = "fiscal"
       /\ work[j].qr[1].foundInPreprocessed
       /\ Row(j).resultType = Some("qr")
       /\ Row(j).qrFormat = Some("fiscal")
       /\ Row(j).qrData = Some(FiscalPayload)
       /\ ~IsSet(Row(j).rawText)
       /\ Row(j).aligned = FALSE

(* The step in which the handler of job j leaves the align point of process *)
AlignStep(j) == pc[j] = "align" /\ pc'[j] # pc[j]

(* C22: when Aligner.align fails the attempt does not fail: warped is the
   original image, preprocessed the locally preprocessed image (the original
   one when local preprocessing fails), the step writes no blob and no
   processedUrl, and the QR attempt and the OCR chain then run on these
   buffers. *)
C22_AlignerFailureFallsBack ==
    [][\A j \in JobIds :
          /\ AlignStep(j) /\ work'[j].align = "failed" =>
                /\ pc'[j] = "recognize"
                /\ exc'[j] = exc[j]
                /\ work'[j].warped = "original"
                /\ work'[j].preprocessed \in {"local-preprocessed", "original"}
                /\ images' = images
                /\ blobs' = blobs
                /\ faults' = faults
          /\ RecognizeStep(j) /\ work[j].align = "failed" =>
                /\ work'[j].warped = "original"
                /\ work'[j].preprocessed = work[j].preprocessed
                /\ images' = images
                /\ \A i \in 1..Len(work'[j].calls) :
                      work'[j].calls[i].buffer \in {"preprocessed", "warped"}]_vars

(* C22 witness: after a failed align the chain has run on the local buffers
   and completed the recognition; the Image has no processedUrl *)
C22_Witness ==
    \E j \in JobIds :
       /\ pc[j] = "publishCompleted"
       /\ work[j].align = "failed"
       /\ work[j].warped = "original"
       /\ work[j].preprocessed = "local-preprocessed"
       /\ Len(work[j].calls) = 3
       /\ Row(j).resultType = Some("text")
       /\ ~IsSet(images[j][1].processedUrl)

(* C23: over all attempts of a job, retries included, Image.processedUrl is
   written at most once: once set it is never overwritten with a different
   blob location. *)
C23_ProcessedUrlWrittenOnce ==
    [][\A i \in JobIds :
          IsSet(images[i]) /\ IsSet(images[i][1].processedUrl) =>
             /\ IsSet(images'[i])
             /\ images'[i][1].processedUrl = images[i][1].processedUrl]_vars

(* C24: once an Image exists no step changes its originalUrl, fileSize or
   mimeType; the only later write is of processedUrl, made by the processor's
   align step, and a processedUrl that is set never equals originalUrl. *)
C24_ImageImmutableButProcessedUrl ==
    [][\A i \in JobIds :
          IsSet(images[i]) =>
             /\ IsSet(images'[i])
             /\ images'[i][1].originalUrl = images[i][1].originalUrl
             /\ images'[i][1].fileSize = images[i][1].fileSize
             /\ images'[i][1].mimeType = images[i][1].mimeType
             /\ images'[i] # images[i] =>
                   /\ \E j \in JobIds : AlignStep(j) /\ ProcessArguments(jobs[j]).imageId = i
                   /\ images'[i] = Some([images[i][1] EXCEPT !.processedUrl = images'[i][1].processedUrl])
             /\ IsSet(images'[i][1].processedUrl) =>
                   images'[i][1].processedUrl[1] # images'[i][1].originalUrl]_vars

(* C24 witness: a retry has written processedUrl again; the Image still holds
   the upload's location, size and type *)
C24_Witness ==
    \E j \in JobIds :
       /\ jobs[j].attemptsMade >= 1
       /\ AlignedKey(j, 0) \in blobs
       /\ pc[j] = "recognize"
       /\ IsSet(images[j])
       /\ images[j][1].processedUrl = Some(BlobUrl(AlignedKey(j, jobs[j].attemptsMade)))
       /\ images[j][1].originalUrl = BlobUrl(OriginalKey(j))
       /\ images[j][1].fileSize = RequestOf(j).file.size
       /\ images[j][1].mimeType = RequestOf(j).file.type

(* C26: POST /api/v1/recognize answers 400 to every validation rejection (a
   missing image, an unknown acceptedQrFormats entry, an unsupported MIME
   type, a size over 10 MiB) and 500 only when something downstream failed. *)
C26_ValidationAnswers400 ==
    \A j \in JobIds :
       IsSet(http[j]) =>
          /\ ~Requested(j) => http[j][1].status = 400
          /\ Requested(j) /\ (UnsupportedType(RequestOf(j).file) \/ TooLarge(RequestOf(j).file)) =>
                http[j][1].status = 400
          /\ http[j][1].status = 500 =>
                /\ Requested(j)
                /\ ~UnsupportedType(RequestOf(j).file)
                /\ ~TooLarge(RequestOf(j).file)

(* Request j is answered in this step *)
Answered(j) == http[j] = None /\ http'[j] # None

(* C27: uploading the same bytes twice yields two distinct Image ids, two
   distinct Recognition ids and two distinct blob keys, and the second upload
   overwrites nothing the first one wrote. *)
C27_SameBytesTwiceDistinct ==
    [][\A j \in UploadIds : \A k \in UploadIds \ {j} :
          Answered(j) /\ IsSet(http[k]) /\ http[k][1].status = 202 =>
             /\ images'[k] = images[k]
             /\ recs'[k] = recs[k]
             /\ jobs'[k] = jobs[k]
             /\ blobs \subseteq blobs'
             /\ cache \subseteq cache'
             /\ http'[j][1].status = 202 /\ RequestOf(j)'.file = RequestOf(k).file =>
                   /\ http'[j][1].imageId # http[k][1].imageId
                   /\ http'[j][1].recognitionId # http[k][1].recognitionId
                   /\ jobs'[j].imageId # jobs[k].imageId
                   /\ jobs'[j].recognitionId # jobs[k].recognitionId
                   /\ images'[j][1].originalUrl # images[k][1].originalUrl
                   /\ KeyOfUrl(images'[j][1].originalUrl) \notin blobs
                   /\ Cardinality(blobs') = Cardinality(blobs) + 1]_vars

(* C27 witness: both uploads of the same file were accepted; two blobs, two
   Images and two Recognitions exist *)
C27_Witness ==
    /\ \A j \in UploadIds : IsSet(http[j]) /\ http[j][1].status = 202
    /\ RequestOf(1).file = RequestOf(2).file
    /\ Cardinality(blobs) = 2
    /\ IsSet(images[1]) /\ IsSet(images[2]) /\ IsSet(recs[1]) /\ IsSet(recs[2])
    /\ images[1][1].originalUrl # images[2][1].originalUrl

(* C28: whenever confidence is set on a Recognition it lies in [0,1]
   (0..1000 thousandths), whatever confidence the engine's response carried. *)
C28_ConfidenceInUnitInterval ==
    \A j \in JobIds :
       HasRow(j) /\ IsSet(Row(j).confidence) =>
          Row(j).confidence[1] >= 0 /\ Row(j).confidence[1] <= 1000

(* C29: once an update has returned, every findById that starts afterwards
   returns the updated record, and the cache holds no projection older than
   the last update whose invalidation has happened. *)
C29_FindByIdSeesReturnedUpdate ==
    /\ \A c \in Callers :
          repo.calls[c].at = "idle" /\ IsSet(repo.calls[c].returned) =>
             repo.calls[c].returned[1] >= repo.calls[c].after
    /\ IsSet(repo.entry) => repo.entry[1] >= repo.updated

(* The step in which the handler of job j obtains the original bytes *)
LoadStep(j) == pc[j] = "load" /\ pc'[j] = "align"

(* C30: while the byte-cache entry that uploadImage seeded for the image is
   present, step 1 of the processor takes the original bytes from the cache
   and does not read the blob store; the blob store is read only when that
   entry is missing. *)
C30_BytesFromSeededCache ==
    [][\A j \in JobIds :
          LoadStep(j) =>
             LET seeded == BytesCacheKey(KeyOfUrl(images[ProcessArguments(jobs[j]).imageId][1].originalUrl))
             IN /\ seeded \in cache => work'[j].loadedFrom = "cache"
                /\ work'[j].loadedFrom = "blob" => seeded \notin cache]_vars

(* A metadata store write of job j's attempt fails in this step: the write of
   status processing, the update of processedUrl after the warped image was
   put, or the write of the completed status *)
MetadataWriteFailed(j) ==
    /\ HandlerStepFailed(j)
    /\ \/ pc[j] = "process"
       \/ pc[j] = "align" /\ AlignedKey(j, jobs[j].attemptsMade) \in blobs'
       \/ pc[j] = "recognize"

(* C31: a metadata store write that fails during an attempt reaches the catch
   of process, which persists failed and re-raises; a job whose attempts are
   exhausted never leaves its Recognition in status processing. *)
C31_StoreWriteFailureFails ==
    [][\A j \in JobIds :
          /\ MetadataWriteFailed(j) => pc'[j] = "catch" /\ exc'[j] = Some(StoreError)
          /\ pc[j] = "catch" /\ pc'[j] # pc[j] /\ exc[j] = Some(StoreError) =>
                /\ recs'[j][1].status = "failed"
                /\ pc'[j] = "publishFailed"
          /\ jobs'[j].state = "failed" /\ HasRow(j) => recs'[j][1].status # "processing"]_vars

(* The job is settled: the queue holds it completed or failed for good and its
   Recognition holds a terminal status *)
Settled(j) ==
    /\ jobs[j].state \in {"completed", "failed"}
    /\ HasRow(j)
    /\ Terminal(Row(j).status)

(* C32: under fair scheduling, with stores, cache and bus that succeed and
   engine calls that return or fail, every enqueued job is eventually dequeued,
   and its Recognition eventually reaches completed or failed and from then on
   stays terminal. *)
C32_EveryJobSettles ==
    \A j \in JobIds :
       /\ (jobs[j].state = "waiting") ~> (jobs[j].state = "active")
       /\ (jobs[j].state = "waiting") ~> [](Settled(j))

(* C32 witness: a job that used all its attempts is settled as failed *)
C32_Witness ==
    \E j \in JobIds :
       /\ jobs[j].state = "failed"
       /\ jobs[j].attemptsMade = QueueAttempts
       /\ Settled(j)
       /\ Row(j).status = "failed"
       /\ pc[j] = "idle"

(* C33: with stores, cache and bus that succeed, a Recognition is written
   failed only with 'image not found' or 'all ocr engines failed': neither a
   failure of the aligner or of local preprocessing (the align step always
   hands over to the QR attempt) nor a QR decoding that throws on either
   buffer makes the attempt fail. *)
C33_OnlyTwoFailures ==
    [][\A j \in JobIds :
          /\ AlignStep(j) => pc'[j] = "recognize" /\ exc'[j] = exc[j]
          /\ RecognizeStep(j) /\ pc'[j] = "catch" =>
                /\ exc'[j] = Some("all ocr engines failed")
                /\ ~IsSet(work'[j].qr)
                /\ \A i \in 1..Len(work'[j].calls) : work'[j].calls[i].response.threw
          /\ WritesTerminal(j, "failed") =>
                recs'[j][1].error \in {Some("image not found"), Some("all ocr engines failed")}]_vars

(* C33 witness: the aligner failed, local preprocessing failed, both QR
   decodings threw, and the attempt completed with a text result *)
C33_Witness ==
    \E j \in JobIds :
       /\ pc[j] = "publishCompleted"
       /\ work[j].align = "failed"
       /\ work[j].preprocessed = "original"
       /\ probe = <<TRUE, TRUE>>
       /\ Row(j).status = "completed"
       /\ Row(j).resultType = Some("text")

(* C34: when Aligner.align has returned and the put of the warped image or
   the update of processedUrl throws, the exception reaches the catch of
   process; the attempt never goes on with the original bytes after a
   successful alignment, and the step sets processedUrl exactly when the
   aligner's outputs are the buffers handed to the QR and OCR steps. *)
C34_PersistFailureFailsAttempt ==
    [][\A j \in JobIds :
          AlignStep(j) =>
             /\ work'[j].align = "returned" /\ faults' = faults + 1 =>
                   pc'[j] = "catch" /\ IsSet(exc'[j])
             /\ work'[j].align = "returned" /\ pc'[j] = "recognize" =>
                   work'[j].warped = "aligned" /\ work'[j].preprocessed = "aligned-preprocessed"
             /\ (work'[j].warped = "aligned") <=>
                   (images'[j][1].processedUrl =
                       Some(BlobUrl(AlignedKey(j, jobs[j].attemptsMade))))]_vars

(* readBarcodes gave at least one code on the buffer *)
Yields(read) == ~read.threw /\ Len(read.codes) >= 1

(* qr is what the fiscal-else-first rule selects among the codes of read *)
SelectedFrom(qr, read) ==
    LET fiscal == {i \in 1..Len(read.codes) : classifyQrFormat(read.codes[i].text) = "fiscal"}
    IN /\ fiscal # {} => qr.format = "fiscal" /\ \E i \in fiscal : qr.data = read.codes[i].text
       /\ fiscal = {} => qr.data = read.codes[1].text
                         /\ qr.format = classifyQrFormat(read.codes[1].text)

(* C35: warped is scanned first; if it yields a code the result comes from
   warped (a fiscal code if there is one, else the first code) and
   preprocessed is not consulted; preprocessed is consulted, with the same
   rule, only when warped yielded nothing or threw; the result is null only
   when neither buffer yields a code. *)
C35_WarpedFirstFiscalElseFirst ==
    probe # NoProbe /\ probe.at = "returned" =>
       LET warped == probe.reads[1]
           preprocessed == probe.reads[2]
       IN /\ Yields(warped) =>
                /\ IsSet(probe.qr)
                /\ ~probe.qr[1].foundInPreprocessed
                /\ SelectedFrom(probe.qr[1], warped)
                /\ probe.consulted = 1
          /\ ~Yields(warped) =>
                /\ probe.consulted = 2
                /\ Yields(preprocessed) =>
                      /\ IsSet(probe.qr)
                      /\ probe.qr[1].foundInPreprocessed
                      /\ SelectedFrom(probe.qr[1], preprocessed)
          /\ ~IsSet(probe.qr) <=> (~Yields(warped) /\ ~Yields(preprocessed))

(* C35 witness: decoding warped threw, preprocessed holds a url code before a
   fiscal one, and the fiscal code of preprocessed was returned *)
C35_Witness ==
    /\ probe # NoProbe
    /\ probe.at = "returned"
    /\ probe.reads[1].threw
    /\ Len(probe.reads[2].codes) = 2
    /\ probe.reads[2].codes[1].text = UrlPayload
    /\ probe.reads[2].codes[2].text = FiscalPayload
    /\ IsSet(probe.qr)
    /\ probe.qr[1].data = FiscalPayload
    /\ probe.qr[1].foundInPreprocessed

(* The payload contains the substring: one of its tokens is it or holds it *)
Contains(data, s) ==
    \E i \in 1..Len(data) : data[i] = s \/ (s = "fn=" /\ data[i] = "&fn=")

(* C36: classifyQrFormat answers for every payload, with fiscal first: fiscal
   iff the payload contains 'fn=' or all of 't=', 's=' and 'fp='; otherwise
   url iff it starts with 'http://' or 'https://'; otherwise unknown. *)
C36_ClassifyFiscalFirst ==
    probe # NoProbe /\ probe.at = "returned" =>
       LET data == probe.data
           fiscal == \/ Contains(data, "fn=")
                     \/ Contains(data, "t=") /\ Contains(data, "s=") /\ Contains(data, "fp=")
           url == Len(data) > 0 /\ data[1] \in {"http://", "https://"}
       IN /\ probe.format \in QrFormats
          /\ probe.format = "fiscal" <=> fiscal
          /\ probe.format = "url" <=> ~fiscal /\ url
          /\ probe.format = "unknown" <=> ~fiscal /\ ~url

(* C36 witness: a URL whose query holds fn= was classified fiscal *)
C36_Witness ==
    /\ probe # NoProbe
    /\ probe.at = "returned"
    /\ probe.data = <<"https://", "x", "&fn=">>
    /\ probe.format = "fiscal"

(* The names of the events published for recognition j *)
EventNames(j) == [i \in 1..Len(events[j]) |-> events[j][i].event]

(* C37: for every recognition, ocr.queued is published before ocr.processing
   whatever the interleaving of the gateway's 'added' handler with the worker,
   and a job that succeeds on its first attempt has exactly the events
   ocr.queued, ocr.processing, ocr.completed. *)
C37_QueuedBeforeProcessing ==
    \A j \in JobIds :
       jobs[j].attemptsMade = 0 =>
          /\ \A i \in 1..Len(events[j]) :
                events[j][i].event = "ocr.processing" =>
                   \E k \in 1..(i - 1) : events[j][k].event = "ocr.queued"
          /\ jobs[j].state = "completed" =>
                EventNames(j) = <<"ocr.queued", "ocr.processing", "ocr.completed">>

(* A step of the handler that runs job j *)
WorkerStep(j) == pc'[j] # pc[j]

(* C38: an attempt of job j writes only its own Recognition and Image and
   blobs under new keys: with executors running concurrently, a step of one
   job never changes the Recognition, the Image, the queue entry or the
   original blob of another job. *)
C38_JobsDoNotInterfere ==
    [][\A j \in UploadIds : \A k \in UploadIds \ {j} :
          WorkerStep(j) /\ ~WorkerStep(k) =>
             /\ recs'[k] = recs[k]
             /\ images'[k] = images[k]
             /\ jobs'[k] = jobs[k]
             /\ work'[k] = work[k]
             /\ OriginalKey(k) \in blobs => OriginalKey(k) \in blobs'
             /\ \A key \in blobs' \ blobs : key = AlignedKey(j, jobs[j].attemptsMade)]_vars

(* C38 witness: both jobs were being processed at once; the first is
   completed while the second, aligned, still holds status processing *)
C38_Witness ==
    /\ jobs[1].state = "completed"
    /\ recs[1][1].status = "completed"
    /\ images[1][1].processedUrl = Some(BlobUrl(AlignedKey(1, 0)))
    /\ pc[2] = "recognize"
    /\ recs[2][1].status = "processing"
    /\ images[2][1].processedUrl = Some(BlobUrl(AlignedKey(2, 0)))
    /\ {OriginalKey(1), OriginalKey(2)} \subseteq blobs

(* Attempt k of a run was accepted: it returned and the chain ended with it *)
CallAccepted(chain, low, k) ==
    /\ ~chain.calls[k].response.threw
    /\ chain.calls[k].response.confidence >= low

(* C39: the outcome of the OCR chain does not depend on T_high: given the same
   engine answers and the same T_low, two runs under different
   confidenceThresholdHigh make the same calls and persist the same result;
   the chain stops at an attempt before the last exactly when that attempt
   returned with confidence >= T_low. *)
C39_ChainIgnoresThresholdHigh ==
    probe # NoProbe /\ probe.at = "returned" =>
       /\ probe.chains[1] = probe.chains[2]
       /\ probe.dtos[1] = probe.dtos[2]
       /\ \A n \in 1..2 : \A k \in 1..Len(probe.chains[n].calls) :
             k < Len(Attempts) =>
                (k = Len(probe.chains[n].calls) <=> CallAccepted(probe.chains[n], probe.low, k))

(* C39 witness: an answer between the two high thresholds and above T_low was
   accepted by both runs at the first attempt *)
C39_Witness ==
    /\ probe # NoProbe /\ probe.at = "returned"
    /\ probe.highs = <<600, 1000>>
    /\ probe.low = 600
    /\ probe.responses[1] = Recognized("ta", 724)
    /\ Len(probe.chains[1].calls) = 1 /\ Len(probe.chains[2].calls) = 1
    /\ probe.dtos[2].status = "completed"

(* The step of job j that writes the completed Recognition *)
CompletingStep(j) == RecognizeStep(j) /\ pc'[j] = "publishCompleted"

(* C40: every write that completes a Recognition with resultType text sets
   aligned to true, also when alignment failed and the chain ran on the
   original bytes; the write that completes it with resultType qr leaves
   aligned as it was. *)
C40_TextCompletionWritesAligned ==
    [][\A j \in JobIds :
          CompletingStep(j) =>
             /\ recs'[j][1].status = "completed"
             /\ recs'[j][1].resultType = Some("text") =>
                   recs'[j][1].aligned = TRUE /\ result'[j][1].text[1].aligned = TRUE
             /\ recs'[j][1].resultType = Some("qr") =>
                   recs'[j][1].aligned = Row(j).aligned]_vars

(* C40 witness: the aligner failed, the chain ran on the original image and
   the Recognition is completed with a text result and aligned = true *)
C40_Witness ==
    \E j \in JobIds :
       /\ pc[j] = "publishCompleted"
       /\ work[j].align = "failed"
       /\ work[j].warped = "original"
       /\ work[j].preprocessed = "original"
       /\ Row(j).status = "completed"
       /\ Row(j).resultType = Some("text")
       /\ Row(j).aligned = TRUE
       /\ images[j][1].processedUrl = None

====
